---- MODULE Spec2Model ----
(***************************************************************************)
(* Model of src/main.py: the ColabLeechSetup provisioning pipeline, its    *)
(* loading-animation thread, and main()'s exit-code handling.              *)
(*                                                                         *)
(* Python integers are unbounded; DUMP_ID values have up to 13 decimal     *)
(* digits, so an integer is held as a sign and a digit sequence and str()  *)
(* and int() are computed on character sequences.                          *)
(***************************************************************************)
EXTENDS Integers, Sequences, FiniteSets, TLC

VARIABLES config, credentials, working, pc, step, trace, fs, setupResult,
          exitCode, joinOutcome, anim, i, runs

vars == <<config, credentials, working, pc, step, trace, fs, setupResult,
          exitCode, joinOutcome, anim, i, runs>>

\* ---------------------------------------------------------------- bounds
\* How many times the script is executed on the same filesystem.
MaxRuns == 2

\* ------------------------------------------------------------- constants
\* len(animation_chars)
NumGlyphs == 8
\* len(commands) in setup_repository
NumCommands == 4
\* the length _validate_dump_id tests for
DumpLen == 10

\* -------------------------------------------------- integers and strings
Zero == [neg |-> FALSE, digits |-> <<0>>]

Pos(ds) == [neg |-> FALSE, digits |-> ds]

Neg(ds) == [neg |-> TRUE, digits |-> ds]

DigitChars == <<"0", "1", "2", "3", "4", "5", "6", "7", "8", "9">>

IsDigit(c) == \E k \in 1..10 : DigitChars[k] = c

DigitVal(c) == CHOOSE k \in 0..9 : DigitChars[k + 1] = c

\* str(n) for an integer n
str(n) ==
    (IF n.neg THEN <<"-">> ELSE <<>>)
        \o [k \in 1..Len(n.digits) |-> DigitChars[n.digits[k] + 1]]

\* s.startswith(p)
startswith(s, p) == Len(s) >= Len(p) /\ SubSeq(s, 1, Len(p)) = p

RECURSIVE StripZeros(_)
StripZeros(ds) ==
    IF Len(ds) > 1 /\ ds[1] = 0 THEN StripZeros(Tail(ds)) ELSE ds

\* int(s): an optional sign followed by one or more digits, else ValueError
int(s) ==
    LET signed == Len(s) > 0 /\ s[1] \in {"-", "+"}
        body   == IF signed THEN Tail(s) ELSE s
    IN  IF body = <<>> \/ \E k \in 1..Len(body) : ~IsDigit(body[k])
        THEN [kind |-> "ValueError", val |-> Zero]
        ELSE LET ds == StripZeros([k \in 1..Len(body) |-> DigitVal(body[k])])
             IN  [kind |-> "value",
                  val  |-> [neg    |-> s[1] = "-" /\ ds # <<0>>,
                            digits |-> ds]]

Prefix100 == <<"-", "1", "0", "0">>

\* ColabLeechSetup._validate_dump_id
validate_dump_id(dump_id) ==
    LET dump_str == str(dump_id)
    IN  IF Len(dump_str) = DumpLen /\ ~startswith(dump_str, Prefix100)
        THEN int(Prefix100 \o dump_str)
        ELSE [kind |-> "value", val |-> dump_id]

\* ------------------------------------------------------ configuration
\* The DUMP_ID values the form is filled with.
DumpIds ==
    { Zero,
      Pos(<<1, 2, 3, 4, 5>>),
      Pos(<<1, 2, 3, 4, 5, 6, 7, 8, 9, 0>>),
      Pos(<<9, 8, 7, 6, 5, 4, 3, 2, 1, 0>>),
      Pos(<<1, 2, 3, 4, 5, 6, 7, 8, 9, 0, 1>>),
      Neg(<<1, 0, 0, 1, 2, 3, 4, 5, 6, 7, 8, 9, 0>>),
      Neg(<<1, 0, 0, 1, 2, 3, 4, 5, 6>>),
      Neg(<<1, 2, 3, 4, 5, 6, 7, 8, 9>>),
      Neg(<<1, 2, 3, 4, 5, 6, 7, 8, 9, 0>>) }

Configs ==
    [API_ID : {0, 7}, API_HASH : {"", "h"}, BOT_TOKEN : {"", "t"},
     USER_ID : {0, 5}, DUMP_ID : DumpIds]

\* self.credentials, once the object is constructed
Creds == CHOOSE c \in credentials : TRUE

\* variant: the test leaves USER_ID out
all_credentials_noUser(c) ==
    c.API_ID # 0 /\ c.API_HASH # "" /\ c.BOT_TOKEN # ""

\* variant: the test leaves API_HASH out
all_credentials_noHash(c) ==
    c.API_ID # 0 /\ c.BOT_TOKEN # "" /\ c.USER_ID # 0

\* the all([...]) test of setup()
all_credentials(c) ==
    c.API_ID # 0 /\ c.API_HASH # "" /\ c.BOT_TOKEN # "" /\ c.USER_ID # 0

\* ------------------------------------------------------------ filesystem
\* sample_data: /content/sample_data, repo: REPO_PATH, session: SESSION_FILE
\* and cred: CREDENTIALS_PATH (its content, if any); the last two lie
\* inside REPO_PATH.
NoPaths == [sample_data |-> FALSE, repo |-> FALSE, session |-> FALSE,
            cred |-> {}]

InitialFs ==
    { f \in [sample_data : BOOLEAN, repo : BOOLEAN, session : BOOLEAN,
             cred : {{}}] : f.session => f.repo }

\* shutil.rmtree(REPO_PATH)
rmtree_repo(f) == [f EXCEPT !.repo = FALSE, !.session = FALSE, !.cred = {}]

\* variant: the sample-data removal is not guarded by os.path.exists
cleanup_environment_unguarded(f) ==
    IF ~f.sample_data
    THEN [fs |-> f, exc |-> "FileNotFoundError", msgs |-> {}]
    ELSE [fs   |-> [rmtree_repo(f) EXCEPT !.sample_data = FALSE],
          exc  |-> "none",
          msgs |-> {"Removed sample data"}
                   \cup (IF f.repo THEN {"Removed previous installation"}
                         ELSE {})]

\* ColabLeechSetup.cleanup_environment
cleanup_environment(f) ==
    LET f1 == IF f.sample_data THEN [f EXCEPT !.sample_data = FALSE] ELSE f
        f2 == IF f1.repo THEN rmtree_repo(f1) ELSE f1
        f3 == IF f2.session THEN [f2 EXCEPT !.session = FALSE] ELSE f2
    IN  [fs   |-> f3,
         exc  |-> "none",
         msgs |-> (IF f.sample_data THEN {"Removed sample data"} ELSE {})
                  \cup (IF f1.repo THEN {"Removed previous installation"}
                        ELSE {})
                  \cup (IF f2.session THEN {"Removed previous session file"}
                        ELSE {})]

\* ---------------------------------------------------------- run_command
Outcomes == {"exit0", "nonzero", "timeout", "exception"}

\* variant: only TimeoutExpired is caught
run_command_uncaught(outcome) ==
    CASE outcome = "nonzero"   -> [ret |-> FALSE, msg |-> "Error", exc |-> "none"]
      [] outcome = "exit0"     -> [ret |-> TRUE, msg |-> "completed", exc |-> "none"]
      [] outcome = "timeout"   -> [ret |-> FALSE, msg |-> "Timeout", exc |-> "none"]
      [] outcome = "exception" ->
            [ret |-> FALSE, msg |-> "none", exc |-> "Exception"]

\* ColabLeechSetup.run_command
run_command(outcome) ==
    CASE outcome = "nonzero"   -> [ret |-> FALSE, msg |-> "Error", exc |-> "none"]
      [] outcome = "exit0"     -> [ret |-> TRUE, msg |-> "completed", exc |-> "none"]
      [] outcome = "timeout"   -> [ret |-> FALSE, msg |-> "Timeout", exc |-> "none"]
      [] outcome = "exception" ->
            [ret |-> FALSE, msg |-> "Unexpected error", exc |-> "none"]

commands == <<"clone", "setup_sh", "apt", "pip">>

\* variant: the loop ignores what run_command returned
setup_repository_ignore(k, ret) ==
    IF k < NumCommands
    THEN [pc |-> "run_command", step |-> k + 1, result |-> "none"]
    ELSE [pc |-> "save_credentials", step |-> 0, result |-> "none"]

\* the loop of setup_repository and the test of its result in setup():
\* where control goes after command k returned ret
setup_repository(k, ret) ==
    IF ~ret THEN [pc |-> "returned", step |-> 0, result |-> "False"]
    ELSE IF k < NumCommands
         THEN [pc |-> "run_command", step |-> k + 1, result |-> "none"]
         ELSE [pc |-> "save_credentials", step |-> 0, result |-> "none"]

\* ----------------------------------------------------- save_credentials
\* what json.load yields when the file is not what was dumped
Tampered(c) == [c EXCEPT !.API_HASH = ""]

\* variant: the except clause does not re-raise
save_credentials_swallow(c, wr, rd, saved) ==
    IF wr = "fault"
    THEN [written |-> FALSE, msg |-> "Failed to save credentials",
          exc |-> "none"]
    ELSE IF rd = "fault"
    THEN [written |-> TRUE, msg |-> "Failed to save credentials",
          exc |-> "none"]
    ELSE IF saved = c
    THEN [written |-> TRUE, msg |-> "Credentials verified", exc |-> "none"]
    ELSE [written |-> TRUE, msg |-> "Credentials verification failed",
          exc |-> "none"]

\* ColabLeechSetup.save_credentials; wr and rd are the outcomes of the two
\* open() blocks, saved is what json.load returned
save_credentials(c, wr, rd, saved) ==
    IF wr = "fault"
    THEN [written |-> FALSE, msg |-> "Failed to save credentials",
          exc |-> "Exception"]
    ELSE IF rd = "fault"
    THEN [written |-> TRUE, msg |-> "Failed to save credentials",
          exc |-> "Exception"]
    ELSE IF saved = c
    THEN [written |-> TRUE, msg |-> "Credentials verified", exc |-> "none"]
    ELSE [written |-> TRUE, msg |-> "Credentials verification failed",
          exc |-> "none"]

\* variant: join reports the thread ended whatever its state
join_unchecked(alive) == "terminated"

\* loader_thread.join(timeout=1): returns when the thread has ended or when
\* the second has passed
join(alive) == IF alive THEN "timeout" ELSE "terminated"

\* sys.exit(0 if success else 1)
exit_status(success) == IF success = "True" THEN 0 ELSE 1

\* ------------------------------------------------------------------ state
\* config: the module-level API_ID .. DUMP_ID; credentials: {} before the
\* object exists, else {self.credentials}; working: self.working;
\* pc, step: position of the main thread (step: index into commands);
\* trace: what the main thread did in this run, in order;
\* fs: the filesystem; setupResult: what setup() returned ("none" before);
\* exitCode: -1 while the process runs; joinOutcome: how join() returned;
\* anim: position of the animation thread; i: its counter modulo the
\* number of glyphs; runs: executions of the script so far.

Ev(op, out, msgs, ret) == [op |-> op, out |-> out, msgs |-> msgs, ret |-> ret]

\* what happened to the credentials file: the write failed, the read
\* failed, or json.load returned the dumped value or another one
IO(wr, rd, same) ==
    IF wr = "fault" THEN "write_fault"
    ELSE IF rd = "fault" THEN "read_fault"
    ELSE IF same THEN "match" ELSE "mismatch"

\* interpreter exit ends the daemon thread
AfterExit(a) == IF a \in {"idle", "done"} THEN a ELSE "dead"

Init ==
    /\ config \in Configs
    /\ fs \in InitialFs
    /\ credentials = {}
    /\ working = FALSE
    /\ pc = "main"
    /\ step = 0
    /\ trace = <<>>
    /\ setupResult = "none"
    /\ exitCode = -1
    /\ joinOutcome = "none"
    /\ anim = "idle"
    /\ i = 0
    /\ runs = 1

\* main(): ColabLeechSetup(...); a ValueError from __init__ is caught by
\* main's "except Exception" and ends the process with status 1
Construct ==
    /\ pc = "main"
    /\ LET r == validate_dump_id(config.DUMP_ID)
       IN  IF r.kind = "ValueError"
           THEN /\ trace' = Append(trace, Ev("__init__", "ValueError",
                                             {"Unexpected error"}, FALSE))
                /\ pc' = "exited"
                /\ exitCode' = 1
                /\ UNCHANGED <<credentials, working>>
           ELSE /\ credentials' = {[config EXCEPT !.DUMP_ID = r.val]}
                /\ working' = TRUE
                /\ pc' = "setup"
                /\ UNCHANGED <<trace, exitCode>>
    /\ UNCHANGED <<config, step, fs, setupResult, joinOutcome, anim, i, runs>>

\* setup(): display_banner and the credentials test
setup_validate ==
    /\ pc = "setup"
    /\ IF ~all_credentials(Creds)
       THEN /\ trace' = Append(trace, Ev("validate", "missing",
                               {"Please fill in all required credentials"},
                               FALSE))
            /\ setupResult' = "False"
            /\ pc' = "returned"
       ELSE /\ trace' = Append(trace, Ev("validate", "ok", {}, TRUE))
            /\ pc' = "start_loader"
            /\ UNCHANGED setupResult
    /\ UNCHANGED <<config, credentials, working, step, fs, exitCode,
                   joinOutcome, anim, i, runs>>

\* setup(): loader_thread.start()
start_loader ==
    /\ pc = "start_loader"
    /\ anim' = "check"
    /\ trace' = Append(trace, Ev("loader_start", "ok", {}, TRUE))
    /\ pc' = "cleanup_environment"
    /\ UNCHANGED <<config, credentials, working, step, fs, setupResult,
                   exitCode, joinOutcome, i, runs>>

\* setup(): self.cleanup_environment()
cleanup ==
    /\ pc = "cleanup_environment"
    /\ LET r == cleanup_environment(fs)
       IN  /\ fs' = r.fs
           /\ trace' = Append(trace, Ev("cleanup_environment", r.exc,
                                        r.msgs, r.exc = "none"))
           /\ IF r.exc # "none"
              THEN pc' = "except" /\ step' = 0
              ELSE pc' = "run_command" /\ step' = 1
    /\ UNCHANGED <<config, credentials, working, setupResult, exitCode,
                   joinOutcome, anim, i, runs>>

\* setup_repository(): one iteration of the loop over commands
run_step ==
    /\ pc = "run_command"
    /\ \E outcome \in Outcomes :
         LET r == run_command(outcome)
             n == setup_repository(step, r.ret)
         IN  /\ trace' = Append(trace, Ev(commands[step], outcome,
                                          {r.msg}, r.ret))
             /\ fs' = IF step = 1 /\ outcome = "exit0"
                      THEN [fs EXCEPT !.repo = TRUE] ELSE fs
             /\ IF r.exc # "none"
                THEN pc' = "except" /\ step' = 0 /\ UNCHANGED setupResult
                ELSE pc' = n.pc /\ step' = n.step
                     /\ setupResult' = n.result
    /\ UNCHANGED <<config, credentials, working, exitCode, joinOutcome,
                   anim, i, runs>>

\* setup(): self.save_credentials()
save ==
    /\ pc = "save_credentials"
    /\ \E wr \in {"ok", "fault"}, rd \in {"ok", "fault"},
          saved \in {Creds, Tampered(Creds)} :
         LET r == save_credentials(Creds, wr, rd, saved)
         IN  /\ fs' = IF r.written THEN [fs EXCEPT !.cred = {Creds}] ELSE fs
             /\ trace' = Append(trace, Ev("save_credentials",
                                          IO(wr, rd, saved = Creds),
                                          {r.msg}, r.exc = "none"))
             /\ pc' = IF r.exc # "none" THEN "except" ELSE "working_clear"
    /\ UNCHANGED <<config, credentials, working, step, setupResult, exitCode,
                   joinOutcome, anim, i, runs>>

\* setup(): the "except Exception" handler
setup_except ==
    /\ pc = "except"
    /\ working' = FALSE
    /\ trace' = Append(trace, Ev("except", "Exception", {"Setup failed"},
                                 FALSE))
    /\ setupResult' = "False"
    /\ pc' = "returned"
    /\ UNCHANGED <<config, credentials, step, fs, exitCode, joinOutcome,
                   anim, i, runs>>

\* setup(): self.working.clear()
working_clear ==
    /\ pc = "working_clear"
    /\ working' = FALSE
    /\ trace' = Append(trace, Ev("working_clear", "ok", {}, TRUE))
    /\ pc' = "join"
    /\ UNCHANGED <<config, credentials, step, fs, setupResult, exitCode,
                   joinOutcome, anim, i, runs>>

\* setup(): loader_thread.join(timeout=1). No bound ties the thread's
\* progress to the clock, so the timeout may fire whenever the thread is
\* still alive.
loader_join ==
    /\ pc = "join"
    /\ joinOutcome' = join(anim # "done")
    /\ trace' = Append(trace, Ev("join", joinOutcome', {}, TRUE))
    /\ pc' = "start_bot"
    /\ UNCHANGED <<config, credentials, working, step, fs, setupResult,
                   exitCode, anim, i, runs>>

\* start_bot(): chdir and launch; an exception is caught and printed
start_bot ==
    /\ pc = "start_bot"
    /\ \E out \in {"started", "exception"} :
         /\ trace' = Append(trace, Ev("start_bot", out,
                            IF out = "started" THEN {"Starting"}
                            ELSE {"Error starting bot"}, out = "started"))
         /\ pc' = IF out = "started" THEN "bot_running" ELSE "setup_return"
         /\ fs' = IF out = "started" THEN [fs EXCEPT !.session = TRUE]
                  ELSE fs
    /\ UNCHANGED <<config, credentials, working, step, setupResult, exitCode,
                   joinOutcome, anim, i, runs>>

\* start_bot(): subprocess.run returns
bot_exit ==
    /\ pc = "bot_running"
    /\ trace' = Append(trace, Ev("bot", "exited", {}, TRUE))
    /\ pc' = "setup_return"
    /\ UNCHANGED <<config, credentials, working, step, fs, setupResult,
                   exitCode, joinOutcome, anim, i, runs>>

\* start_bot(): "except KeyboardInterrupt" while the bot runs
bot_interrupt ==
    /\ pc = "bot_running"
    /\ trace' = Append(trace, Ev("bot", "KeyboardInterrupt",
                                 {"Bot stopped by user"}, FALSE))
    /\ pc' = "setup_return"
    /\ UNCHANGED <<config, credentials, working, step, fs, setupResult,
                   exitCode, joinOutcome, anim, i, runs>>

\* setup(): "return True" after start_bot
setup_return ==
    /\ pc = "setup_return"
    /\ setupResult' = "True"
    /\ pc' = "returned"
    /\ UNCHANGED <<config, credentials, working, step, trace, fs, exitCode,
                   joinOutcome, anim, i, runs>>

\* main(): sys.exit(0 if success else 1)
main_exit ==
    /\ pc = "returned"
    /\ exitCode' = exit_status(setupResult)
    /\ pc' = "exited"
    /\ anim' = AfterExit(anim)
    /\ UNCHANGED <<config, credentials, working, step, trace, fs,
                   setupResult, joinOutcome, i, runs>>

\* main(): "except KeyboardInterrupt"; an interrupt raised in the main
\* thread anywhere outside start_bot's try block reaches it
keyboard_interrupt ==
    /\ pc \notin {"bot_running", "exited"}
    /\ trace' = Append(trace, Ev("main", "KeyboardInterrupt",
                                 {"Setup interrupted by user"}, FALSE))
    /\ exitCode' = 1
    /\ pc' = "exited"
    /\ step' = 0
    /\ anim' = AfterExit(anim)
    /\ UNCHANGED <<config, credentials, working, fs, setupResult,
                   joinOutcome, i, runs>>

\* loading_animation(): the loop test
animation_check ==
    /\ anim = "check"
    /\ anim' = IF working THEN "render" ELSE "clear_output"
    /\ UNCHANGED <<config, credentials, working, pc, step, trace, fs,
                   setupResult, exitCode, joinOutcome, i, runs>>

\* loading_animation(): the loop body (print, i += 1, sleep)
animation_render ==
    /\ anim = "render"
    /\ i' = (i + 1) % NumGlyphs
    /\ anim' = "check"
    /\ UNCHANGED <<config, credentials, working, pc, step, trace, fs,
                   setupResult, exitCode, joinOutcome, runs>>

\* loading_animation(): clear_output() after the loop
animation_clear ==
    /\ anim = "clear_output"
    /\ anim' = "done"
    /\ UNCHANGED <<config, credentials, working, pc, step, trace, fs,
                   setupResult, exitCode, joinOutcome, i, runs>>

\* the script is executed again ("if __name__ == '__main__': main()") on
\* the filesystem the previous execution left
rerun ==
    /\ pc = "exited"
    /\ runs < MaxRuns
    /\ runs' = runs + 1
    /\ credentials' = {}
    /\ working' = FALSE
    /\ pc' = "main"
    /\ step' = 0
    /\ trace' = <<>>
    /\ setupResult' = "none"
    /\ exitCode' = -1
    /\ joinOutcome' = "none"
    /\ anim' = "idle"
    /\ i' = 0
    /\ UNCHANGED <<config, fs>>

Next ==
    \/ Construct
    \/ setup_validate
    \/ start_loader
    \/ cleanup
    \/ run_step
    \/ save
    \/ setup_except
    \/ working_clear
    \/ loader_join
    \/ start_bot
    \/ bot_exit
    \/ bot_interrupt
    \/ setup_return
    \/ main_exit
    \/ keyboard_interrupt
    \/ animation_check
    \/ animation_render
    \/ animation_clear
    \/ rerun

Spec == Init /\ [][Next]_vars

TypeOK ==
    /\ config \in Configs
    /\ working \in BOOLEAN
    /\ step \in 0..NumCommands
    /\ setupResult \in {"none", "True", "False"}
    /\ exitCode \in {-1, 0, 1}
    /\ joinOutcome \in {"none", "terminated", "timeout"}
    /\ anim \in {"idle", "check", "render", "clear_output", "done", "dead"}
    /\ i \in 0..(NumGlyphs - 1)
    /\ runs \in 1..MaxRuns
    /\ fs.session => fs.repo
    /\ fs.cred # {} => fs.repo

\* ------------------------------------------------------------ properties
Ran(op) == \E k \in DOMAIN trace : trace[k].op = op

EvOf(op) == trace[CHOOSE k \in DOMAIN trace : trace[k].op = op]

Last == trace[Len(trace)]

StepOps == {"clone", "setup_sh", "apt", "pip"}

StepOrder == <<"clone", "setup_sh", "apt", "pip">>

IsStep(e) == e.op \in StepOps

StepEvents == SelectSeq(trace, IsStep)

StepFailed == \E k \in DOMAIN trace :
                  trace[k].op \in StepOps /\ trace[k].out # "exit0"

Interrupted == Ran("main")

RequiredMissing(c) ==
    c.API_ID = 0 \/ c.API_HASH = "" \/ c.BOT_TOKEN = "" \/ c.USER_ID = 0

PipelineOps == {"loader_start", "cleanup_environment", "save_credentials",
                "working_clear", "join", "start_bot", "bot"} \cup StepOps

\* C1: when one of API_ID, API_HASH, BOT_TOKEN, USER_ID is zero or empty,
\* nothing of the pipeline happens (no thread start, no reset, no
\* acquisition step, no credentials write, no bot launch), no path of the
\* filesystem changes, and the process ends with exit code 1.
C1_ValidationFirst ==
    /\ [](RequiredMissing(config) =>
            /\ \A k \in DOMAIN trace : trace[k].op \notin PipelineOps
            /\ anim = "idle"
            /\ setupResult # "True"
            /\ (pc = "exited" => exitCode = 1))
    /\ [][RequiredMissing(config) => fs' = fs]_vars

C1_Witness ==
    /\ RequiredMissing(config)
    /\ fs.repo /\ fs.sample_data
    /\ pc = "exited" /\ exitCode = 1
    /\ setupResult = "False"

\* C2: the acquisition steps run in the order clone, setup script, system
\* packages, Python dependencies; a step runs only after its predecessor
\* exited 0; after a failed step no later step runs, the credentials file
\* is not written, the bot is not launched and setup() returns False; the
\* bot is launched only after four successes and the credentials write.
C2_FailFastOrder ==
    LET S == StepEvents
    IN  /\ Len(S) <= 4
        /\ \A k \in 1..Len(S) : S[k].op = StepOrder[k]
        /\ \A k \in 1..(Len(S) - 1) : S[k].out = "exit0"
        /\ StepFailed =>
              /\ Last.op \in StepOps \cup {"main"}
              /\ ~Ran("save_credentials")
              /\ ~Ran("start_bot")
              /\ fs.cred = {}
              /\ setupResult = "False"
        /\ Ran("start_bot") =>
              /\ Len(S) = 4
              /\ \A k \in 1..4 : S[k].out = "exit0"
              /\ Ran("save_credentials")
              /\ fs.cred = credentials

C2_Witness ==
    /\ Len(StepEvents) = 3
    /\ StepEvents[3].out = "nonzero"
    /\ pc = "exited" /\ exitCode = 1 /\ ~Interrupted

\* what the claim C3 expects of _validate_dump_id
ExpectedDump(d) ==
    IF ~d.neg /\ Len(d.digits) = 10
    THEN [neg |-> TRUE, digits |-> <<1, 0, 0>> \o d.digits]
    ELSE d

Constructed == pc # "main" /\ (trace = <<>> \/ trace[1].op # "main")

\* C3: for every integer DUMP_ID the constructor obtains a value from
\* _validate_dump_id: "-100" prepended to a ten-digit value, any other
\* value unchanged.
C3_DumpIdTotal ==
    Constructed =>
        /\ credentials # {}
        /\ Creds.DUMP_ID = ExpectedDump(config.DUMP_ID)

FullSuccess ==
    /\ ~Interrupted
    /\ Ran("start_bot") /\ EvOf("start_bot").out = "started"
    /\ Ran("bot") /\ EvOf("bot").out = "exited"

\* C4: the exit code is 0 only on full success and 1 on any failure or
\* interruption, in whatever phase it happens.
C4_ExitCode ==
    pc = "exited" => exitCode = (IF FullSuccess THEN 0 ELSE 1)

PastValidation == pc = "start_loader" \/ Ran("loader_start")

\* C5 (as claimed): all five configuration values are truthy whenever
\* provisioning has gone past validation.
C5_AllFiveTruthy ==
    PastValidation =>
        /\ ~RequiredMissing(Creds)
        /\ Creds.DUMP_ID # Zero

\* C5 (amended): API_ID, API_HASH, BOT_TOKEN and USER_ID are truthy
\* whenever provisioning has gone past validation; DUMP_ID is not tested.
C5_FourTruthy ==
    PastValidation => ~RequiredMissing(Creds) /\ ~RequiredMissing(config)

C5_Witness ==
    /\ Ran("cleanup_environment")
    /\ Ran("clone")
    /\ Creds.DUMP_ID = Zero

\* C6 (as claimed): the animation loop has exited by the time start_bot
\* begins.
C6_AnimationStopped ==
    pc \in {"start_bot", "bot_running"} => anim = "done"

\* C6 (amended): by the time start_bot begins the stop flag is cleared and
\* join has returned; the animation loop has exited if join returned
\* because the thread ended, and join timed out if it has not.
C6_FlagClearedAndJoined ==
    pc \in {"start_bot", "bot_running"} =>
        /\ ~working
        /\ joinOutcome \in {"terminated", "timeout"}
        /\ (joinOutcome = "terminated" => anim = "done")

C6_Witness ==
    /\ pc = "start_bot"
    /\ joinOutcome = "terminated"
    /\ anim = "done"

SaveFault == Ran("save_credentials")
             /\ EvOf("save_credentials").out \in {"write_fault", "read_fault"}

SaveNoFault == Ran("save_credentials")
               /\ EvOf("save_credentials").out \in {"match", "mismatch"}

\* C7: once the four steps succeeded, start_bot is called exactly when
\* writing and re-reading the credentials file raised nothing: a mismatch
\* is only logged (start_bot is called, setup() returns True), a fault is
\* re-raised (start_bot is not called, setup() returns False, exit code 1).
C7_PersistGate ==
    /\ Ran("start_bot") => SaveNoFault
    /\ SaveFault =>
          /\ ~Ran("start_bot")
          /\ Last.op \in {"save_credentials", "except", "main"}
          /\ (Last.op = "save_credentials" => pc = "except")
          /\ (setupResult # "none" => setupResult = "False")
          /\ (pc = "exited" => exitCode = 1)
    /\ (SaveNoFault /\ setupResult # "none") =>
          /\ Ran("start_bot")
          /\ setupResult = "True"

C7_Witness ==
    /\ Ran("save_credentials")
    /\ EvOf("save_credentials").out = "mismatch"
    /\ EvOf("save_credentials").msgs = {"Credentials verification failed"}
    /\ Ran("start_bot")
    /\ setupResult = "True"

\* C8: run_command raises nothing to its caller: it returns True exactly
\* when the process exited 0; a non-zero exit, a timeout and any other
\* exception each return False with a message of their own, and setup()
\* then returns False and the process exits 1.
C8_RunCommandOutcomes ==
    \A k \in DOMAIN trace :
        trace[k].op \in StepOps =>
            /\ trace[k].ret = (trace[k].out = "exit0")
            /\ (trace[k].out = "exit0"     <=> trace[k].msgs = {"completed"})
            /\ (trace[k].out = "nonzero"   <=> trace[k].msgs = {"Error"})
            /\ (trace[k].out = "timeout"   <=> trace[k].msgs = {"Timeout"})
            /\ (trace[k].out = "exception"
                    <=> trace[k].msgs = {"Unexpected error"})
            /\ (trace[k].out # "exit0" =>
                    /\ pc # "except" /\ ~Ran("except")
                    /\ setupResult = "False"
                    /\ (pc = "exited" => exitCode = 1))

C8_Witness ==
    /\ Ran("clone") /\ EvOf("clone").out = "exit0"
    /\ Ran("setup_sh") /\ EvOf("setup_sh").out = "timeout"
    /\ pc = "exited" /\ exitCode = 1 /\ ~Interrupted

\* C9: cleanup_environment, run on any combination of present and absent
\* paths, raises nothing and leaves none of the three paths; run with
\* nothing present it changes nothing.
C9_ResetIdempotent ==
    [][(pc = "cleanup_environment"
          /\ pc' \notin {"cleanup_environment", "exited"}) =>
            /\ pc' = "run_command"
            /\ ~fs'.sample_data /\ ~fs'.repo /\ ~fs'.session
            /\ (fs = NoPaths => fs' = fs)]_vars

C9_Witness ==
    /\ runs = 2
    /\ pc = "run_command" /\ step = 1
    /\ Last.op = "cleanup_environment"
    /\ Last.msgs = {}
    /\ fs = NoPaths

\* C10: whenever setup() has returned after starting the animation thread,
\* the stop flag is cleared.
C10_FlagClearedOnReturn ==
    (Ran("loader_start") /\ setupResult # "none") => ~working

====
